---- MODULE Spec2Model ----
(***************************************************************************)
(* A model of odm-plugin-js: the PluginServer dispatcher and lifecycle,    *)
(* the PluginMain process wrapper, the ProtobufHelper codec and the        *)
(* example contract MyCustomPlugin.                                        *)
(*                                                                         *)
(* JavaScript strings are sequences of UTF-16 code units (naturals), byte  *)
(* buffers are sequences of bytes.  A JavaScript value is a record tagged  *)
(* by its typeof/shape in field t.                                         *)
(***************************************************************************)
EXTENDS Integers, Sequences, FiniteSets, TLC

VARIABLES
    \* ProtobufHelper round trip
    cPc, cValue, cTypeUrl, cAny, cOut,
    \* MyCustomPlugin.execute
    exPc, exReq, exResp,
    \* PluginServer: the transport's state, start() calls, Execute calls
    srvShutdown, srvPorts, starts, calls, stopCalls,
    \* PluginMain.start and the process around it
    mainPc, envPort, requestedPort, stdout, handlers, exitCode

vars == <<cPc, cValue, cTypeUrl, cAny, cOut, exPc, exReq, exResp,
          srvShutdown, srvPorts, starts, calls, stopCalls,
          mainPc, envPort, requestedPort, stdout, handlers, exitCode>>

codecVars == <<cPc, cValue, cTypeUrl, cAny, cOut>>
exampleVars == <<exPc, exReq, exResp>>
serverVars == <<srvShutdown, srvPorts, starts, calls, stopCalls>>
mainVars == <<mainPc, envPort, requestedPort, stdout, handlers, exitCode>>

(***************************************************************************)
(* Bounds of the model.                                                    *)
(***************************************************************************)
MaxStrLen == 2
MaxMant == 12
MaxScale == 1
MaxEnvLen == 2
MaxCalls == 2
MaxStarts == 2
MaxStops == 2

(***************************************************************************)
(* Text: code units and the literals the program uses.                     *)
(***************************************************************************)
S_true == <<116, 114, 117, 101>>
S_false == <<102, 97, 108, 115, 101>>
S_null == <<110, 117, 108, 108>>
S_NaN == <<78, 97, 78>>
S_hello == <<104, 101, 108, 108, 111>>
S_olleh == <<111, 108, 108, 101, 104>>
S_HELLO == <<72, 69, 76, 76, 79>>
S_op == <<111, 112>>
S_operation == <<111, 112, 101, 114, 97, 116, 105, 111, 110>>
S_uppercase == <<117, 112, 112, 101, 114, 99, 97, 115, 101>>
S_lowercase == <<108, 111, 119, 101, 114, 99, 97, 115, 101>>
S_reverse == <<114, 101, 118, 101, 114, 115, 101>>
S_length == <<108, 101, 110, 103, 116, 104>>
S_UnknownError == <<85, 110, 107, 110, 111, 119, 110, 32, 101, 114, 114, 111, 114>>
S_StringValue == <<83, 116, 114, 105, 110, 103, 86, 97, 108, 117, 101>>
S_DoubleValue == <<68, 111, 117, 98, 108, 101, 86, 97, 108, 117, 101>>
S_BoolValue == <<66, 111, 111, 108, 86, 97, 108, 117, 101>>
S_Struct == <<83, 116, 114, 117, 99, 116>>
\* "type.googleapis.com/google.protobuf."
S_TypePrefix == <<116, 121, 112, 101, 46, 103, 111, 111, 103, 108, 101, 97, 112,
                  105, 115, 46, 99, 111, 109, 47, 103, 111, 111, 103, 108, 101,
                  46, 112, 114, 111, 116, 111, 98, 117, 102, 46>>

IsDigit(c) == c >= 48 /\ c <= 57
\* StrWhiteSpaceChar, restricted to the ASCII members
IsSpace(c) == c \in {9, 10, 11, 12, 13, 32}
IsHighSurrogate(c) == c >= 55296 /\ c <= 56319
IsLowSurrogate(c) == c >= 56320 /\ c <= 57343

\* String.prototype.includes
Includes(s, sub) ==
    \E i \in 0..(Len(s) - Len(sub)) : SubSeq(s, i + 1, i + Len(sub)) = sub

\* s.startsWith(p, i) with i counted from 1
StartsAt(s, i, p) == i + Len(p) - 1 <= Len(s) /\ SubSeq(s, i, i + Len(p) - 1) = p

RECURSIVE Reverse(_)
Reverse(s) == IF s = <<>> THEN <<>> ELSE Reverse(Tail(s)) \o <<Head(s)>>

\* toUpperCase / toLowerCase on the ASCII letters
UpperChar(c) == IF c >= 97 /\ c <= 122 THEN c - 32 ELSE c
LowerChar(c) == IF c >= 65 /\ c <= 90 THEN c + 32 ELSE c
ToUpperCase(s) == [i \in 1..Len(s) |-> UpperChar(s[i])]
ToLowerCase(s) == [i \in 1..Len(s) |-> LowerChar(s[i])]

RECURSIVE Pow(_, _)
Pow(b, e) == IF e = 0 THEN 1 ELSE b * Pow(b, e - 1)

RECURSIVE DigitsOf(_)
DigitsOf(n) == IF n < 10 THEN <<48 + n>> ELSE DigitsOf(n \div 10) \o <<48 + (n % 10)>>

\* the end (exclusive) of the run of decimal digits of s that starts at i
RECURSIVE ScanDigits(_, _)
ScanDigits(s, i) == IF i <= Len(s) /\ IsDigit(s[i]) THEN ScanDigits(s, i + 1) ELSE i

RECURSIVE SkipSpace(_, _)
SkipSpace(s, i) == IF i <= Len(s) /\ IsSpace(s[i]) THEN SkipSpace(s, i + 1) ELSE i

\* the value of the decimal digits s[i..j-1]
RECURSIVE DigitsVal(_, _, _)
DigitsVal(s, i, j) == IF i >= j THEN 0 ELSE DigitsVal(s, i, j - 1) * 10 + (s[j - 1] - 48)

(***************************************************************************)
(* Buffer.from(text, "utf8") and buf.toString("utf8").                     *)
(***************************************************************************)
Utf8OfCodePoint(cp) ==
    IF cp < 128 THEN <<cp>>
    ELSE IF cp < 2048 THEN <<192 + (cp \div 64), 128 + (cp % 64)>>
    ELSE IF cp < 65536
         THEN <<224 + (cp \div 4096), 128 + ((cp \div 64) % 64), 128 + (cp % 64)>>
         ELSE <<240 + (cp \div 262144), 128 + ((cp \div 4096) % 64),
                128 + ((cp \div 64) % 64), 128 + (cp % 64)>>

\* an unpaired surrogate is encoded as U+FFFD
RECURSIVE Utf8Encode(_)
Utf8Encode(s) ==
    IF s = <<>> THEN <<>>
    ELSE LET c == Head(s) IN
         IF IsHighSurrogate(c) /\ Len(s) >= 2 /\ IsLowSurrogate(s[2])
         THEN Utf8OfCodePoint(65536 + (c - 55296) * 1024 + (s[2] - 56320))
                  \o Utf8Encode(Tail(Tail(s)))
         ELSE IF IsHighSurrogate(c) \/ IsLowSurrogate(c)
         THEN <<239, 191, 189>> \o Utf8Encode(Tail(s))
         ELSE Utf8OfCodePoint(c) \o Utf8Encode(Tail(s))

IsCont(b, i) == i <= Len(b) /\ b[i] >= 128 /\ b[i] < 192

UnitsOfCodePoint(cp) ==
    IF cp < 65536 THEN <<cp>>
    ELSE <<55296 + ((cp - 65536) \div 1024), 56320 + ((cp - 65536) % 1024)>>

\* a byte that starts no well-formed sequence decodes to U+FFFD
RECURSIVE Utf8DecodeFrom(_, _)
Utf8DecodeFrom(b, i) ==
    IF i > Len(b) THEN <<>>
    ELSE LET c == b[i] IN
         IF c < 128 THEN <<c>> \o Utf8DecodeFrom(b, i + 1)
         ELSE IF c >= 194 /\ c < 224 /\ IsCont(b, i + 1)
         THEN <<(c - 192) * 64 + (b[i + 1] - 128)>> \o Utf8DecodeFrom(b, i + 2)
         ELSE IF c >= 224 /\ c < 240 /\ IsCont(b, i + 1) /\ IsCont(b, i + 2)
         THEN LET cp == (c - 224) * 4096 + (b[i + 1] - 128) * 64 + (b[i + 2] - 128) IN
              IF cp < 2048 \/ IsHighSurrogate(cp) \/ IsLowSurrogate(cp)
              THEN <<65533>> \o Utf8DecodeFrom(b, i + 1)
              ELSE <<cp>> \o Utf8DecodeFrom(b, i + 3)
         ELSE IF c >= 240 /\ c < 245 /\ IsCont(b, i + 1) /\ IsCont(b, i + 2)
                 /\ IsCont(b, i + 3)
         THEN LET cp == (c - 240) * 262144 + (b[i + 1] - 128) * 4096
                        + (b[i + 2] - 128) * 64 + (b[i + 3] - 128) IN
              IF cp < 65536 \/ cp > 1114111
              THEN <<65533>> \o Utf8DecodeFrom(b, i + 1)
              ELSE UnitsOfCodePoint(cp) \o Utf8DecodeFrom(b, i + 4)
         ELSE <<65533>> \o Utf8DecodeFrom(b, i + 1)

Utf8Decode(b) == Utf8DecodeFrom(b, 1)

(***************************************************************************)
(* JavaScript values.                                                      *)
(* A finite number is sign, decimal mantissa m and scale e: m / 10^e, with *)
(* m not divisible by 10 unless e = 0; -0 is neg with m = 0.               *)
(***************************************************************************)
Undefined == [t |-> "undefined"]
JNull == [t |-> "null"]
Str(s) == [t |-> "string", s |-> s]
Bool(b) == [t |-> "boolean", b |-> b]
Num(neg, m, e) == [t |-> "number", nan |-> FALSE, neg |-> neg, m |-> m, e |-> e]
NaN == [t |-> "number", nan |-> TRUE, neg |-> FALSE, m |-> 0, e |-> 0]
Arr(items) == [t |-> "array", items |-> items]
\* props: the own enumerable properties in insertion order, [k |-> key, v |-> value]
Obj(props) == [t |-> "object", props |-> props]

RECURSIVE Normalize(_, _, _)
Normalize(neg, m, e) ==
    IF e > 0 /\ m % 10 = 0 THEN Normalize(neg, m \div 10, e - 1) ELSE Num(neg, m, e)

\* the == of two numbers
NumEq(a, b) ==
    /\ ~a.nan /\ ~b.nan
    /\ a.m = b.m /\ a.e = b.e
    /\ (a.neg = b.neg \/ a.m = 0)

\* Number.prototype.toString(), for magnitudes printed without an exponent
\* (1e-6 <= |x| < 1e21)
NumberToString(n) ==
    IF n.nan THEN S_NaN
    ELSE IF n.m = 0 THEN <<48>>
    ELSE LET p == Pow(10, n.e)
             f == DigitsOf(n.m % p)
         IN (IF n.neg THEN <<45>> ELSE <<>>)
            \o DigitsOf(n.m \div p)
            \o (IF n.e = 0 THEN <<>>
                ELSE <<46>> \o [i \in 1..(n.e - Len(f)) |-> 48] \o f)

\* sign, mantissa and scale as a number: m / 10^scale
NumberOfScaled(neg, m, scale) ==
    IF scale >= 0 THEN Normalize(neg, m, scale) ELSE Num(neg, m * Pow(10, 0 - scale), 0)

\* the parts of a decimal literal of s: integer digits s[i1..i2-1], an optional
\* fraction that ends before i3, an optional exponent that ends before kEnd
HasDot(s, i2) == i2 <= Len(s) /\ s[i2] = 46
FracEnd(s, i2) == IF HasDot(s, i2) THEN ScanDigits(s, i2 + 1) ELSE i2
FracDigits(s, i2, i3) == IF HasDot(s, i2) THEN i3 - (i2 + 1) ELSE 0
HasE(s, i3) == i3 <= Len(s) /\ s[i3] \in {69, 101}
ExpStart(s, i3) == IF i3 + 1 <= Len(s) /\ s[i3 + 1] \in {43, 45} THEN i3 + 2 ELSE i3 + 1
ExpEnd(s, i3) == IF HasE(s, i3) THEN ScanDigits(s, ExpStart(s, i3)) ELSE i3
Exponent(s, i3, kEnd) ==
    IF HasE(s, i3) /\ kEnd > ExpStart(s, i3)
    THEN (IF s[i3 + 1] = 45 THEN 0 - DigitsVal(s, ExpStart(s, i3), kEnd)
          ELSE DigitsVal(s, ExpStart(s, i3), kEnd))
    ELSE 0

DecimalAt(s, neg, i1, i2, i3, kEnd) ==
    NumberOfScaled(neg,
                   DigitsVal(s, i1, i2) * Pow(10, FracDigits(s, i2, i3))
                       + (IF HasDot(s, i2) THEN DigitsVal(s, i2 + 1, i3) ELSE 0),
                   FracDigits(s, i2, i3) - Exponent(s, i3, kEnd))

ParseFloatExp(s, neg, i1, i2, i3) ==
    IF (i2 - i1) + FracDigits(s, i2, i3) = 0 THEN NaN
    ELSE DecimalAt(s, neg, i1, i2, i3,
                   IF ExpEnd(s, i3) > ExpStart(s, i3) THEN ExpEnd(s, i3) ELSE i3)

ParseFloatDigits(s, neg, i1) ==
    ParseFloatExp(s, neg, i1, ScanDigits(s, i1), FracEnd(s, ScanDigits(s, i1)))

ParseFloatSigned(s, i0) ==
    ParseFloatDigits(s, i0 <= Len(s) /\ s[i0] = 45,
                     IF i0 <= Len(s) /\ s[i0] \in {43, 45} THEN i0 + 1 ELSE i0)

\* parseFloat(text): StrDecimalLiteral prefix after leading white space
\* (the literal Infinity is not modelled)
ParseFloat(s) == ParseFloatSigned(s, SkipSpace(s, 1))

IsHexDigit(c) == IsDigit(c) \/ (c >= 97 /\ c <= 102) \/ (c >= 65 /\ c <= 70)
HexVal(c) == IF IsDigit(c) THEN c - 48 ELSE IF c >= 97 THEN c - 87 ELSE c - 55

RECURSIVE ScanHex(_, _)
ScanHex(s, i) == IF i <= Len(s) /\ IsHexDigit(s[i]) THEN ScanHex(s, i + 1) ELSE i

RECURSIVE HexDigitsVal(_, _, _)
HexDigitsVal(s, i, j) ==
    IF i >= j THEN 0 ELSE HexDigitsVal(s, i, j - 1) * 16 + HexVal(s[j - 1])

ParseIntDigits(s, neg, hex, i2, i3) ==
    IF i3 = i2 THEN NaN
    ELSE Num(neg, IF hex THEN HexDigitsVal(s, i2, i3) ELSE DigitsVal(s, i2, i3), 0)

ParseIntPrefix(s, neg, i1) ==
    IF StartsAt(s, i1, <<48, 120>>) \/ StartsAt(s, i1, <<48, 88>>)
    THEN ParseIntDigits(s, neg, TRUE, i1 + 2, ScanHex(s, i1 + 2))
    ELSE ParseIntDigits(s, neg, FALSE, i1, ScanDigits(s, i1))

ParseIntSigned(s, i0) ==
    ParseIntPrefix(s, i0 <= Len(s) /\ s[i0] = 45,
                   IF i0 <= Len(s) /\ s[i0] \in {43, 45} THEN i0 + 1 ELSE i0)

\* parseInt(text) with no radix: white space, sign, 0x prefix, the digit prefix
ParseInt(s) == ParseIntSigned(s, SkipSpace(s, 1))

(***************************************************************************)
(* JSON.stringify(value, null, gap) and JSON.parse(text).                  *)
(***************************************************************************)
HexDigit(d) == IF d < 10 THEN 48 + d ELSE 87 + d

\* \uXXXX
UnicodeEscape(c) ==
    <<92, 117, HexDigit(c \div 4096), HexDigit((c \div 256) % 16),
      HexDigit((c \div 16) % 16), HexDigit(c % 16)>>

\* QuoteJSONString without the enclosing quotes: quote, backslash and control
\* characters are escaped, and so is an unpaired surrogate
RECURSIVE QuoteBody(_)
QuoteBody(s) ==
    IF s = <<>> THEN <<>>
    ELSE LET c == Head(s) IN
         IF c = 34 THEN <<92, 34>> \o QuoteBody(Tail(s))
         ELSE IF c = 92 THEN <<92, 92>> \o QuoteBody(Tail(s))
         ELSE IF c = 8 THEN <<92, 98>> \o QuoteBody(Tail(s))
         ELSE IF c = 9 THEN <<92, 116>> \o QuoteBody(Tail(s))
         ELSE IF c = 10 THEN <<92, 110>> \o QuoteBody(Tail(s))
         ELSE IF c = 12 THEN <<92, 102>> \o QuoteBody(Tail(s))
         ELSE IF c = 13 THEN <<92, 114>> \o QuoteBody(Tail(s))
         ELSE IF c < 32 THEN UnicodeEscape(c) \o QuoteBody(Tail(s))
         ELSE IF IsHighSurrogate(c) /\ Len(s) >= 2 /\ IsLowSurrogate(s[2])
         THEN <<c, s[2]>> \o QuoteBody(Tail(Tail(s)))
         ELSE IF IsHighSurrogate(c) \/ IsLowSurrogate(c)
         THEN UnicodeEscape(c) \o QuoteBody(Tail(s))
         ELSE <<c>> \o QuoteBody(Tail(s))

Quote(s) == <<34>> \o QuoteBody(s) \o <<34>>

\* SerializeJSONProperty: gap is the indentation unit, indent the current one
RECURSIVE StringifyAt(_, _, _)
RECURSIVE StringifyItems(_, _, _, _)
RECURSIVE StringifyProps(_, _, _, _)
StringifyAt(v, gap, indent) ==
    CASE v.t = "null" -> S_null
      [] v.t = "boolean" -> IF v.b THEN S_true ELSE S_false
      [] v.t = "number" -> IF v.nan THEN S_null ELSE NumberToString(v)
      [] v.t = "string" -> Quote(v.s)
      [] v.t = "array" ->
            IF v.items = <<>> THEN <<91, 93>>
            ELSE IF gap = <<>>
            THEN <<91>> \o StringifyItems(v.items, 1, gap, indent) \o <<93>>
            ELSE <<91, 10>> \o StringifyItems(v.items, 1, gap, indent \o gap)
                     \o <<10>> \o indent \o <<93>>
      [] v.t = "object" ->
            IF v.props = <<>> THEN <<123, 125>>
            ELSE IF gap = <<>>
            THEN <<123>> \o StringifyProps(v.props, 1, gap, indent) \o <<125>>
            ELSE <<123, 10>> \o StringifyProps(v.props, 1, gap, indent \o gap)
                     \o <<10>> \o indent \o <<125>>

StringifyItems(items, i, gap, indent) ==
    (IF gap = <<>> THEN <<>> ELSE indent)
    \o StringifyAt(items[i], gap, indent)
    \o (IF i = Len(items) THEN <<>>
        ELSE (IF gap = <<>> THEN <<44>> ELSE <<44, 10>>)
                 \o StringifyItems(items, i + 1, gap, indent))

StringifyProps(props, i, gap, indent) ==
    (IF gap = <<>> THEN <<>> ELSE indent)
    \o Quote(props[i].k) \o (IF gap = <<>> THEN <<58>> ELSE <<58, 32>>)
    \o StringifyAt(props[i].v, gap, indent)
    \o (IF i = Len(props) THEN <<>>
        ELSE (IF gap = <<>> THEN <<44>> ELSE <<44, 10>>)
                 \o StringifyProps(props, i + 1, gap, indent))

\* JSON.stringify(value): undefined has no JSON text
JSONStringify(v) == StringifyAt(v, <<>>, <<>>)
\* JSON.stringify(value, null, 2)
JSONStringify2(v) == StringifyAt(v, <<32, 32>>, <<>>)

ParseFail == [ok |-> FALSE, v |-> JNull, i |-> 0]
ParseOk(v, i) == [ok |-> TRUE, v |-> v, i |-> i]

RECURSIVE SkipJsonWs(_, _)
SkipJsonWs(s, i) ==
    IF i <= Len(s) /\ s[i] \in {9, 10, 13, 32} THEN SkipJsonWs(s, i + 1) ELSE i

\* the characters of a JSON string from i (after the opening quote)
RECURSIVE ParseStringBody(_, _, _)
ParseStringBody(s, i, acc) ==
    IF i > Len(s) THEN ParseFail
    ELSE LET c == s[i] IN
         IF c = 34 THEN ParseOk(Str(acc), i + 1)
         ELSE IF c < 32 THEN ParseFail
         ELSE IF c # 92 THEN ParseStringBody(s, i + 1, Append(acc, c))
         ELSE IF i + 1 > Len(s) THEN ParseFail
         ELSE LET d == s[i + 1] IN
              IF d \in {34, 92, 47} THEN ParseStringBody(s, i + 2, Append(acc, d))
              ELSE IF d = 98 THEN ParseStringBody(s, i + 2, Append(acc, 8))
              ELSE IF d = 102 THEN ParseStringBody(s, i + 2, Append(acc, 12))
              ELSE IF d = 110 THEN ParseStringBody(s, i + 2, Append(acc, 10))
              ELSE IF d = 114 THEN ParseStringBody(s, i + 2, Append(acc, 13))
              ELSE IF d = 116 THEN ParseStringBody(s, i + 2, Append(acc, 9))
              ELSE IF d = 117 /\ i + 5 <= Len(s)
                      /\ \A j \in (i + 2)..(i + 5) : IsHexDigit(s[j])
              THEN ParseStringBody(s, i + 6, Append(acc, HexDigitsVal(s, i + 2, i + 6)))
              ELSE ParseFail

\* a JSON number: -? (0 | [1-9] digits) (. digits+)? ([eE] [+-]? digits+)?
JsonNumberEnd(s, neg, i1, i2, i3, kEnd) ==
    IF \/ i2 = i1
       \/ (i2 - i1 > 1 /\ s[i1] = 48)
       \/ (HasDot(s, i2) /\ FracDigits(s, i2, i3) = 0)
       \/ (HasE(s, i3) /\ kEnd = ExpStart(s, i3))
    THEN ParseFail
    ELSE ParseOk(DecimalAt(s, neg, i1, i2, i3, kEnd), kEnd)

JsonNumberDigits(s, neg, i1, i2) ==
    JsonNumberEnd(s, neg, i1, i2, FracEnd(s, i2), ExpEnd(s, FracEnd(s, i2)))

ParseJsonNumber(s, i) ==
    IF s[i] = 45 THEN JsonNumberDigits(s, TRUE, i + 1, ScanDigits(s, i + 1))
    ELSE JsonNumberDigits(s, FALSE, i, ScanDigits(s, i))

\* CreateDataProperty on the object being built: a repeated key keeps its place
PutProp(props, key, val) ==
    IF \E j \in 1..Len(props) : props[j].k = key
    THEN [j \in 1..Len(props) |->
              IF props[j].k = key THEN [k |-> key, v |-> val] ELSE props[j]]
    ELSE Append(props, [k |-> key, v |-> val])

RECURSIVE ParseValue(_, _)
RECURSIVE ParseElements(_, _, _)
RECURSIVE ParseMembers(_, _, _)
RECURSIVE ParseValueAt(_, _)
RECURSIVE ElementsAfter(_, _, _, _)
RECURSIVE MemberColon(_, _, _, _)
RECURSIVE MembersAfter(_, _, _, _)

\* the array or object that opens at i, j its first position past white space
ParseArrayAt(s, j) ==
    IF j <= Len(s) /\ s[j] = 93 THEN ParseOk(Arr(<<>>), j + 1) ELSE ParseElements(s, j, <<>>)
ParseObjectAt(s, j) ==
    IF j <= Len(s) /\ s[j] = 125 THEN ParseOk(Obj(<<>>), j + 1) ELSE ParseMembers(s, j, <<>>)

ParseValueAt(s, i) ==
    IF i > Len(s) THEN ParseFail
    ELSE IF s[i] = 34 THEN ParseStringBody(s, i + 1, <<>>)
    ELSE IF s[i] = 91 THEN ParseArrayAt(s, SkipJsonWs(s, i + 1))
    ELSE IF s[i] = 123 THEN ParseObjectAt(s, SkipJsonWs(s, i + 1))
    ELSE IF StartsAt(s, i, S_true) THEN ParseOk(Bool(TRUE), i + 4)
    ELSE IF StartsAt(s, i, S_false) THEN ParseOk(Bool(FALSE), i + 5)
    ELSE IF StartsAt(s, i, S_null) THEN ParseOk(JNull, i + 4)
    ELSE IF s[i] = 45 \/ IsDigit(s[i]) THEN ParseJsonNumber(s, i)
    ELSE ParseFail

ParseValue(s, i0) == ParseValueAt(s, SkipJsonWs(s, i0))

\* after the element r: a comma and more elements, or the closing bracket at j
ElementsAfter(s, r, j, acc) ==
    IF ~r.ok \/ j > Len(s) THEN ParseFail
    ELSE IF s[j] = 44 THEN ParseElements(s, j + 1, Append(acc, r.v))
    ELSE IF s[j] = 93 THEN ParseOk(Arr(Append(acc, r.v)), j + 1)
    ELSE ParseFail

ElementsValue(s, r, acc) == ElementsAfter(s, r, IF r.ok THEN SkipJsonWs(s, r.i) ELSE 0, acc)

ParseElements(s, i, acc) == ElementsValue(s, ParseValue(s, i), acc)

\* after the member key: r:  a comma and more members, or the closing brace at j
MembersAfter(s, props, r, j) ==
    IF ~r.ok \/ j > Len(s) THEN ParseFail
    ELSE IF s[j] = 44 THEN ParseMembers(s, j + 1, props)
    ELSE IF s[j] = 125 THEN ParseOk(Obj(props), j + 1)
    ELSE ParseFail

MemberValue(s, acc, key, r) ==
    MembersAfter(s, IF r.ok THEN PutProp(acc, key.v.s, r.v) ELSE acc, r,
                 IF r.ok THEN SkipJsonWs(s, r.i) ELSE 0)

\* after the key: the colon at c, then the value
MemberColon(s, acc, key, c) ==
    IF ~key.ok \/ c > Len(s) THEN ParseFail
    ELSE IF s[c] # 58 THEN ParseFail
    ELSE MemberValue(s, acc, key, ParseValue(s, c + 1))

MemberKey(s, acc, key) == MemberColon(s, acc, key, IF key.ok THEN SkipJsonWs(s, key.i) ELSE 0)

MembersAt(s, i, acc) ==
    IF i > Len(s) THEN ParseFail
    ELSE IF s[i] # 34 THEN ParseFail
    ELSE MemberKey(s, acc, ParseStringBody(s, i + 1, <<>>))

ParseMembers(s, i0, acc) == MembersAt(s, SkipJsonWs(s, i0), acc)

ParseWhole(s, r) == IF r.ok /\ SkipJsonWs(s, r.i) > Len(s) THEN r ELSE ParseFail

\* JSON.parse(text): ok is FALSE where it throws a SyntaxError
JSONParse(s) == ParseWhole(s, ParseValue(s, 1))

(***************************************************************************)
(* ProtobufHelper.  An Any message is a type URL and a byte buffer; ok is  *)
(* FALSE where the call throws.                                            *)
(***************************************************************************)
DefaultTypeUrl(tag) == S_TypePrefix \o tag

TypeUrlOr_Nullish(typeUrl, dflt) == IF typeUrl.t = "string" THEN typeUrl.s ELSE dflt

\* typeUrl || dflt: undefined and the empty string are falsy
TypeUrlOr(typeUrl, dflt) ==
    IF typeUrl.t = "string" /\ typeUrl.s # <<>> THEN typeUrl.s ELSE dflt

AnyOf(typeUrl, value) == [ok |-> TRUE, typeUrl |-> typeUrl, value |-> value]
\* Buffer.from(undefined, "utf8") throws a TypeError
AnyThrows == [ok |-> FALSE, typeUrl |-> <<>>, value |-> <<>>]

PackAny(value, typeUrl) ==
    IF value.t = "string"
    THEN AnyOf(TypeUrlOr(typeUrl, DefaultTypeUrl(S_StringValue)), Utf8Encode(value.s))
    ELSE IF value.t = "number"
    THEN AnyOf(TypeUrlOr(typeUrl, DefaultTypeUrl(S_DoubleValue)),
               Utf8Encode(NumberToString(value)))
    ELSE IF value.t = "boolean"
    THEN AnyOf(TypeUrlOr(typeUrl, DefaultTypeUrl(S_BoolValue)),
               Utf8Encode(IF value.b THEN S_true ELSE S_false))
    ELSE IF value.t = "undefined" THEN AnyThrows
    ELSE AnyOf(TypeUrlOr(typeUrl, DefaultTypeUrl(S_Struct)),
               Utf8Encode(JSONStringify(value)))

Returns(v) == [ok |-> TRUE, v |-> v]
Throws == [ok |-> FALSE, v |-> Undefined]
\* return JSON.parse(value), which may throw
Parsed(r) == IF r.ok THEN Returns(r.v) ELSE Throws

UnpackAs_BoolTruthy(typeUrl, value) ==
    IF Includes(typeUrl, S_StringValue) THEN Returns(Str(value))
    ELSE IF Includes(typeUrl, S_DoubleValue) THEN Returns(ParseFloat(value))
    ELSE IF Includes(typeUrl, S_BoolValue) THEN Returns(Bool(value # <<>>))
    ELSE IF Includes(typeUrl, S_Struct) THEN Parsed(JSONParse(value))
    ELSE Returns(Str(value))

\* the branches of unpackAny on the tag, value the buffer's text
UnpackAs(typeUrl, value) ==
    IF Includes(typeUrl, S_StringValue) THEN Returns(Str(value))
    ELSE IF Includes(typeUrl, S_DoubleValue) THEN Returns(ParseFloat(value))
    ELSE IF Includes(typeUrl, S_BoolValue) THEN Returns(Bool(value = S_true))
    ELSE IF Includes(typeUrl, S_Struct) THEN Parsed(JSONParse(value))
    ELSE Returns(Str(value))

UnpackAny(any) == UnpackAs(any.typeUrl, Utf8Decode(any.value))

(***************************************************************************)
(* MyCustomPlugin: the example contract.                                   *)
(***************************************************************************)
\* 'Input processed: "'
S_InputProcessed == <<73, 110, 112, 117, 116, 32, 112, 114, 111, 99, 101, 115, 115,
                      101, 100, 58, 32, 34>>
\* 'Arguments: '
S_Arguments == <<65, 114, 103, 117, 109, 101, 110, 116, 115, 58, 32>>
\* 'Options: '
S_Options == <<79, 112, 116, 105, 111, 110, 115, 58, 32>>
\* 'Transformed output: "'
S_TransformedOutput == <<84, 114, 97, 110, 115, 102, 111, 114, 109, 101, 100, 32, 111,
                         117, 116, 112, 117, 116, 58, 32, 34>>
\* 'Error: '
S_ErrorPrefix == <<69, 114, 114, 111, 114, 58, 32>>
\* the message of the SyntaxError JSON.parse throws; its text is the engine's
S_JsonSyntaxError == <<85, 110, 101, 120, 112, 101, 99, 116, 101, 100, 32, 116, 111,
                       107, 101, 110>>

\* ToBoolean
Truthy(v) ==
    CASE v.t = "undefined" -> FALSE
      [] v.t = "null" -> FALSE
      [] v.t = "boolean" -> v.b
      [] v.t = "number" -> ~v.nan /\ v.m # 0
      [] v.t = "string" -> v.s # <<>>
      [] OTHER -> TRUE

\* obj[key] on a plain object whose prototype holds no such key
GetProp(obj, key) ==
    IF \E i \in 1..Len(obj.props) : obj.props[i].k = key
    THEN obj.props[CHOOSE i \in 1..Len(obj.props) : obj.props[i].k = key].v
    ELSE Undefined

\* for (const [key, value] of Object.entries(map)) out[key] = unpackAny(value)
UnpackAll(props) == [i \in 1..Len(props) |-> [k |-> props[i].k, r |-> UnpackAny(props[i].v)]]
AllOk(rs) == \A i \in 1..Len(rs) : rs[i].r.ok
Unpacked(rs) == Obj([i \in 1..Len(rs) |-> [k |-> rs[i].k, v |-> rs[i].r.v]])

TransformInput_NoReverse(operation, input) ==
    IF operation = Str(S_uppercase) THEN ToUpperCase(input)
    ELSE IF operation = Str(S_lowercase) THEN ToLowerCase(input)
    ELSE IF operation = Str(S_length) THEN DigitsOf(Len(input))
    ELSE input

\* switch (operation)
TransformInput(operation, input) ==
    IF operation = Str(S_uppercase) THEN ToUpperCase(input)
    ELSE IF operation = Str(S_lowercase) THEN ToLowerCase(input)
    ELSE IF operation = Str(S_reverse) THEN Reverse(input)
    ELSE IF operation = Str(S_length) THEN DigitsOf(Len(input))
    ELSE input

OperationOr(p) == IF Truthy(p) THEN p ELSE Str(S_uppercase)

\* const operation = options.operation || "uppercase"
OperationOf(options) == OperationOr(GetProp(options, S_operation))

\* the try block once args and options are unpacked
ExecuteBody(input, args, options) ==
    [result |->
         S_InputProcessed \o input \o <<34, 10>>
         \o (IF Len(args.props) > 0
             THEN S_Arguments \o JSONStringify2(args) \o <<10>> ELSE <<>>)
         \o (IF Len(options.props) > 0
             THEN S_Options \o JSONStringify2(options) \o <<10>> ELSE <<>>)
         \o S_TransformedOutput \o TransformInput(OperationOf(options), input) \o <<34>>]

\* a throw of unpackAny is caught: the result is the error's message
ExecuteUnpacked(input, a, o) ==
    IF ~AllOk(a) \/ ~AllOk(o)
    THEN [result |-> S_ErrorPrefix \o S_JsonSyntaxError]
    ELSE ExecuteBody(input, Unpacked(a), Unpacked(o))

MyCustomPluginExecute(request) ==
    ExecuteUnpacked(request.input, UnpackAll(request.args), UnpackAll(request.options))

(***************************************************************************)
(* The values, type URLs and requests the properties range over.           *)
(***************************************************************************)
SeqsUpTo(S, n) == UNION {[1..k -> S] : k \in 0..n}

\* a, 1, quote, backslash, e-acute, euro sign, a high and a low surrogate
CodecChars == {97, 49, 34, 92, 233, 8364, 55357, 56832}

\* strings that look like a boolean, null, a number or JSON text
LookalikeStrings ==
    {S_true, S_false, S_null, S_NaN, <<49, 46, 53>>, <<45, 48>>, <<123, 125>>,
     <<91, 49, 93>>, <<123, 34, 97, 34, 58, 49, 125>>, <<32, 49>>}

CodecStrings == {Str(s) : s \in SeqsUpTo(CodecChars, MaxStrLen) \cup LookalikeStrings}

CodecNumbers ==
    {Num(neg, m, e) : neg \in BOOLEAN, m \in 0..MaxMant, e \in 0..MaxScale}
        \cap {Normalize(neg, m, e) : neg \in BOOLEAN, m \in 0..MaxMant, e \in 0..MaxScale}

CodecLeaves ==
    {JNull, Bool(TRUE), Bool(FALSE), Num(FALSE, 1, 0), Num(TRUE, 0, 0), Num(TRUE, 25, 1),
     Str(<<>>), Str(<<97>>), Str(<<34, 92>>), Str(<<55357>>), Str(<<10, 233>>)}

CodecKeys == {<<97>>, <<98, 34>>}

KeyPairs == {kk \in CodecKeys \X CodecKeys : kk[1] # kk[2]}

ObjectsOver(vals) ==
    {Obj(<<>>)}
        \cup {Obj(<<[k |-> k1, v |-> v1]>>) : k1 \in CodecKeys, v1 \in vals}
        \cup {Obj(<<[k |-> kk[1], v |-> v1], [k |-> kk[2], v |-> v2]>>) :
                  kk \in KeyPairs, v1 \in vals, v2 \in vals}

CodecFlat ==
    {Arr(items) : items \in SeqsUpTo(CodecLeaves, MaxStrLen)} \cup ObjectsOver(CodecLeaves)

CodecNested ==
    {Arr(<<Arr(<<Num(FALSE, 1, 0), Arr(<<>>)>>), Obj(<<[k |-> <<97>>, v |-> Arr(<<JNull>>)]>>)>>),
     Obj(<<[k |-> <<97>>, v |-> Obj(<<[k |-> <<97>>, v |-> Str(<<56832, 34>>)]>>)],
           [k |-> <<98>>, v |-> Arr(<<Bool(FALSE), Num(FALSE, 105, 2)>>)]>>)}

CodecStructs == {JNull} \cup CodecFlat \cup CodecNested

CodecValues == CodecStrings \cup CodecNumbers \cup {Bool(TRUE), Bool(FALSE)} \cup CodecStructs

\* the typeUrl argument: absent, empty, a known tag, an unknown tag
CodecTypeUrls ==
    {Undefined, Str(<<>>), Str(DefaultTypeUrl(S_DoubleValue)), Str(<<120>>)}

NoAny == [ok |-> FALSE, typeUrl |-> <<>>, value |-> <<>>]
NoResult == [ok |-> FALSE, v |-> Undefined]

(***************************************************************************)
(* PluginServer.  The transport (grpc.Server) is the environment: its      *)
(* bindAsync and forceShutdown are modelled at the places the server calls *)
(* them, as the release the source is written for behaves (the one whose   *)
(* server needs no start() after bindAsync): forceShutdown marks the       *)
(* server shut down, cancels pending binds, unbinds its ports and destroys *)
(* the sessions of the calls in flight; bindAsync throws once shut down.   *)
(***************************************************************************)
\* grpc.status.INTERNAL
INTERNAL == 13

\* 'Plugin server started on port '
S_ServerStarted == <<80, 108, 117, 103, 105, 110, 32, 115, 101, 114, 118, 101, 114, 32,
                     115, 116, 97, 114, 116, 101, 100, 32, 111, 110, 32, 112, 111, 114,
                     116, 32>>
\* 'localhost:'
S_localhost == <<108, 111, 99, 97, 108, 104, 111, 115, 116, 58>>
S_boom == <<98, 111, 111, 109>>

StartIds == 1..MaxStarts
CallIds == 1..MaxCalls

ErrorObj(message) == [t |-> "error", message |-> message]

\* what a contract may throw or reject with: an Error with a message, an Error
\* with an empty message, a string, undefined
ThrownValues == {ErrorObj(S_boom), ErrorObj(<<>>), Str(S_boom), Undefined}

\* the ExecutionResponse values a contract may resolve with
Responses == {[result |-> <<120>>], [result |-> <<121>>]}

\* call.request of the c-th call
RequestOf(c) == [input |-> <<48 + c>>, args |-> <<>>, options |-> <<>>]
NoRequest == [input |-> <<>>, args |-> <<>>, options |-> <<>>]

NoCallback == [err |-> Undefined, resp |-> Undefined]
IdleCall ==
    [pc |-> "idle", request |-> NoRequest, outcome |-> "none", response |-> Undefined,
     thrown |-> Undefined, cbCount |-> 0, cb |-> NoCallback, promise |-> "none",
     cancelled |-> FALSE, delivered |-> "none"]
\* threw: bindAsync threw in the promise executor
IdleStart ==
    [pc |-> "idle", port |-> NaN, cancelled |-> FALSE, assigned |-> 0, threw |-> FALSE]

ErrorMessage_OrPlaceholder(error) ==
    IF error.t = "error" /\ error.message # <<>> THEN error.message ELSE S_UnknownError

\* error instanceof Error ? error.message : "Unknown error"
ErrorMessage(error) == IF error.t = "error" THEN error.message ELSE S_UnknownError

\* callback(null, response)
CallbackSuccess(response) == [err |-> JNull, resp |-> response]
\* callback({code: grpc.status.INTERNAL, message: ...})
CallbackFailure(error) ==
    [err |-> [code |-> INTERNAL, message |-> ErrorMessage(error)], resp |-> Undefined]

\* what the transport sends the caller when the handler calls back: nothing once
\* the call's session is destroyed
Delivered(call, args) ==
    IF call.cancelled THEN "none"
    ELSE IF args.err = JNull THEN "response" ELSE "error"

InvokeCallback(call, args) ==
    [call EXCEPT !.cbCount = @ + 1, !.cb = args, !.delivered = Delivered(call, args)]

HandleExecuteTry_Shared(call, response) ==
    [InvokeCallback(call, CallbackSuccess(calls[1].response)) EXCEPT
         !.pc = "done", !.promise = "resolved"]

\* the try block after the await: callback(null, response), then the async
\* function returns
HandleExecuteTry(call, response) ==
    [InvokeCallback(call, CallbackSuccess(response)) EXCEPT
         !.pc = "done", !.promise = "resolved"]

HandleExecuteCatch_Rethrow(call, error) ==
    [call EXCEPT !.pc = "done", !.promise = "rejected"]

\* the catch block: callback with the INTERNAL error, then the async function returns
HandleExecuteCatch(call, error) ==
    [InvokeCallback(call, CallbackFailure(error)) EXCEPT
         !.pc = "done", !.promise = "resolved"]

\* `localhost:${port}`
BindAddress(port) == S_localhost \o NumberToString(port)

AddressDigits(address, i, j) ==
    IF StartsAt(address, 1, S_localhost) /\ j > i /\ j = Len(address) + 1
       /\ DigitsVal(address, i, j) <= 65535
    THEN [ok |-> TRUE, port |-> DigitsVal(address, i, j)]
    ELSE [ok |-> FALSE, port |-> 0]

\* the port of a host:port address: the decimal digits after the colon
AddressPort(address) ==
    AddressDigits(address, Len(S_localhost) + 1, ScanDigits(address, Len(S_localhost) + 1))

\* the ports the OS hands out for a bind to port 0
EphemeralPorts == {49152, 49153}

PortsFor(a) == IF ~a.ok THEN {} ELSE IF a.port = 0 THEN EphemeralPorts ELSE {a.port}

\* the ports a bind to this address may be given
AssignablePorts(address) == PortsFor(AddressPort(address))

\* bindAsync throws on a server that was shut down
BindAsyncThrows == srvShutdown

StartOn_ResolveOnThrow(s, port) ==
    starts' = [starts EXCEPT ![s] =
                   IF BindAsyncThrows
                   THEN [IdleStart EXCEPT !.pc = "resolved", !.port = port, !.threw = TRUE]
                   ELSE [IdleStart EXCEPT !.pc = "binding", !.port = port]]

\* start(port): the promise executor calls bindAsync; a throw rejects the promise
StartOn(s, port) ==
    starts' = [starts EXCEPT ![s] =
                   IF BindAsyncThrows
                   THEN [IdleStart EXCEPT !.pc = "rejected", !.port = port, !.threw = TRUE]
                   ELSE [IdleStart EXCEPT !.pc = "binding", !.port = port]]

\* the bindAsync callback without an error: resolve(assignedPort)
ServerBound(s, p) ==
    /\ starts[s].pc = "binding"
    /\ ~starts[s].cancelled
    /\ p \in AssignablePorts(BindAddress(starts[s].port))
    /\ starts' = [starts EXCEPT ![s].pc = "resolved", ![s].assigned = p]
    /\ srvPorts' = srvPorts \cup {p}

\* the bindAsync callback with an error: reject(err).  A bind may fail for any
\* address (port in use, permission denied); a cancelled bind and a bind to an
\* address that names no port only fail
ServerBindFailed(s) ==
    /\ starts[s].pc = "binding"
    /\ starts' = [starts EXCEPT ![s].pc = "rejected"]

StartedLine(p) == S_ServerStarted \o DigitsOf(p)

\* forceShutdown destroys the sessions: the calls in flight are abandoned
CallsAfterShutdown ==
    [c \in CallIds |-> IF calls[c].pc = "awaiting"
                       THEN [calls[c] EXCEPT !.cancelled = TRUE] ELSE calls[c]]

\* this.server.tryShutdown() in the place of forceShutdown(): the calls in flight
\* are left to complete
TryShutdown ==
    /\ srvShutdown' = TRUE
    /\ srvPorts' = {}
    /\ starts' = [s \in StartIds |-> IF starts[s].pc = "binding"
                                    THEN [starts[s] EXCEPT !.cancelled = TRUE]
                                    ELSE starts[s]]
    /\ calls' = calls
    /\ stopCalls' = IF stopCalls < MaxStops THEN stopCalls + 1 ELSE stopCalls

\* stop(): this.server.forceShutdown()
ForceShutdown ==
    /\ srvShutdown' = TRUE
    /\ srvPorts' = {}
    /\ starts' = [s \in StartIds |-> IF starts[s].pc = "binding"
                                    THEN [starts[s] EXCEPT !.cancelled = TRUE]
                                    ELSE starts[s]]
    /\ calls' = CallsAfterShutdown
    /\ stopCalls' = IF stopCalls < MaxStops THEN stopCalls + 1 ELSE stopCalls

\* the ports start() is called with
StartPorts == {Num(FALSE, 0, 0), Num(FALSE, 5005, 0)}

FirstIdleStart(s) == starts[s].pc = "idle" /\ \A r \in 1..(s - 1) : starts[r].pc # "idle"
FirstIdleCall(c) == calls[c].pc = "idle" /\ \A d \in 1..(c - 1) : calls[d].pc # "idle"

Start(s, port) ==
    /\ FirstIdleStart(s)
    /\ StartOn(s, port)
    /\ UNCHANGED <<srvShutdown, srvPorts, calls, stopCalls>>
    /\ UNCHANGED <<codecVars, exampleVars, mainVars>>

BindSucceed(s, p) ==
    /\ ServerBound(s, p)
    /\ stdout' = Append(stdout, StartedLine(p))
    /\ UNCHANGED <<srvShutdown, calls, stopCalls>>
    /\ UNCHANGED <<mainPc, envPort, requestedPort, handlers, exitCode>>
    /\ UNCHANGED <<codecVars, exampleVars>>

BindFail(s) ==
    /\ ServerBindFailed(s)
    /\ UNCHANGED <<srvShutdown, srvPorts, calls, stopCalls>>
    /\ UNCHANGED <<codecVars, exampleVars, mainVars>>

Stop ==
    /\ ForceShutdown
    /\ UNCHANGED <<codecVars, exampleVars, mainVars>>

\* the transport hands a call to a listening server
Listening == ~srvShutdown /\ srvPorts # {}

\* handleExecute up to its await, the contract returning a promise
ExecuteAwait(c) ==
    /\ Listening
    /\ FirstIdleCall(c)
    /\ calls' = [calls EXCEPT ![c] =
                     [IdleCall EXCEPT !.pc = "awaiting", !.request = RequestOf(c),
                                      !.promise = "pending"]]
    /\ UNCHANGED <<srvShutdown, srvPorts, starts, stopCalls>>
    /\ UNCHANGED <<codecVars, exampleVars, mainVars>>

\* handleExecute when execute() throws before returning a promise
ExecuteThrow(c, error) ==
    /\ Listening
    /\ FirstIdleCall(c)
    /\ calls' = [calls EXCEPT ![c] =
                     HandleExecuteCatch([IdleCall EXCEPT !.request = RequestOf(c),
                                                         !.outcome = "threw",
                                                         !.thrown = error], error)]
    /\ UNCHANGED <<srvShutdown, srvPorts, starts, stopCalls>>
    /\ UNCHANGED <<codecVars, exampleVars, mainVars>>

\* the contract's promise resolves and handleExecute resumes after the await
ContractResolve(c, response) ==
    /\ calls[c].pc = "awaiting"
    /\ calls' = [calls EXCEPT ![c] =
                     HandleExecuteTry([calls[c] EXCEPT !.outcome = "returned",
                                                       !.response = response], response)]
    /\ UNCHANGED <<srvShutdown, srvPorts, starts, stopCalls>>
    /\ UNCHANGED <<codecVars, exampleVars, mainVars>>

\* the contract's promise rejects and handleExecute resumes in its catch block
ContractReject(c, error) ==
    /\ calls[c].pc = "awaiting"
    /\ calls' = [calls EXCEPT ![c] =
                     HandleExecuteCatch([calls[c] EXCEPT !.outcome = "rejected",
                                                         !.thrown = error], error)]
    /\ UNCHANGED <<srvShutdown, srvPorts, starts, stopCalls>>
    /\ UNCHANGED <<codecVars, exampleVars, mainVars>>

(***************************************************************************)
(* PluginMain.start and the process it runs in.  A signal with no listener *)
(* registered takes the runtime's default disposition: the process is      *)
(* terminated by the signal.                                               *)
(***************************************************************************)
\* 'PLUGIN_PORT='
S_PluginPortEq == <<80, 76, 85, 71, 73, 78, 95, 80, 79, 82, 84, 61>>
\* 'Received '
S_Received == <<82, 101, 99, 101, 105, 118, 101, 100, 32>>
\* ', shutting down gracefully'
S_ShuttingDown == <<44, 32, 115, 104, 117, 116, 116, 105, 110, 103, 32, 100, 111, 119,
                    110, 32, 103, 114, 97, 99, 101, 102, 117, 108, 108, 121>>
S_SIGTERM == <<83, 73, 71, 84, 69, 82, 77>>
S_SIGINT == <<83, 73, 71, 73, 78, 84>>
S_5005 == <<53, 48, 48, 53>>

Signals == {"SIGTERM", "SIGINT"}
SignalName(sig) == IF sig = "SIGTERM" THEN S_SIGTERM ELSE S_SIGINT

NotExited == [kind |-> "running", code |-> 0, signal |-> "none"]
\* process.exit(code), in the listener of signal (or "none")
Exited(code, signal) == [kind |-> "exit", code |-> code, signal |-> signal]
\* terminated by a signal nothing listens for
Killed(signal) == [kind |-> "signal", code |-> 0, signal |-> signal]

\* process.env.PLUGIN_PORT ? parseInt(process.env.PLUGIN_PORT) : 0
RequestedPort(env) == IF Truthy(env) THEN ParseInt(env.s) ELSE Num(FALSE, 0, 0)

HandshakeLine_Requested(assignedPort) == S_PluginPortEq \o NumberToString(requestedPort)

\* `PLUGIN_PORT=${assignedPort}`
HandshakeLine(assignedPort) == S_PluginPortEq \o DigitsOf(assignedPort)

\* `Received ${signal}, shutting down gracefully`
SignalLine(sig) == S_Received \o SignalName(sig) \o S_ShuttingDown

RegisteredSignals_TermOnly == {"SIGTERM"}

\* process.on("SIGTERM", ...); process.on("SIGINT", ...)
RegisteredSignals == {"SIGTERM", "SIGINT"}

\* start() up to its await: the port is read and this.server.start(port) called
MainStart ==
    /\ mainPc = "new"
    /\ requestedPort' = RequestedPort(envPort)
    /\ StartOn(1, RequestedPort(envPort))
    /\ mainPc' = "binding"
    /\ UNCHANGED <<envPort, stdout, handlers, exitCode>>
    /\ UNCHANGED <<srvShutdown, srvPorts, calls, stopCalls>>
    /\ UNCHANGED <<codecVars, exampleVars>>

\* the bind succeeds and start() resumes after the await: the server's own log
\* line, the handshake line, then the signal listeners
MainBindSucceed(p) ==
    /\ mainPc = "binding"
    /\ ServerBound(1, p)
    /\ stdout' = stdout \o <<StartedLine(p), HandshakeLine(p)>>
    /\ handlers' = RegisteredSignals
    /\ mainPc' = "running"
    /\ UNCHANGED <<envPort, requestedPort, exitCode>>
    /\ UNCHANGED <<srvShutdown, calls, stopCalls>>
    /\ UNCHANGED <<codecVars, exampleVars>>

\* the bind fails and start() resumes in its catch block: process.exit(1)
MainBindFail ==
    /\ mainPc = "binding"
    /\ ServerBindFailed(1)
    /\ exitCode' = Exited(1, "none")
    /\ mainPc' = "exited"
    /\ UNCHANGED <<envPort, requestedPort, stdout, handlers>>
    /\ UNCHANGED <<srvShutdown, srvPorts, calls, stopCalls>>
    /\ UNCHANGED <<codecVars, exampleVars>>

\* a registered listener runs: log, this.server.stop(), process.exit(0)
SignalHandled(sig) ==
    /\ mainPc \in {"binding", "running"}
    /\ sig \in handlers
    /\ stdout' = Append(stdout, SignalLine(sig))
    /\ ForceShutdown
    /\ exitCode' = Exited(0, sig)
    /\ mainPc' = "exited"
    /\ UNCHANGED <<envPort, requestedPort, handlers>>
    /\ UNCHANGED <<codecVars, exampleVars>>

\* no listener is registered for the signal: the process is terminated by it
SignalDefault(sig) ==
    /\ mainPc \in {"binding", "running"}
    /\ sig \notin handlers
    /\ exitCode' = Killed(sig)
    /\ mainPc' = "exited"
    /\ UNCHANGED <<envPort, requestedPort, stdout, handlers>>
    /\ UNCHANGED serverVars
    /\ UNCHANGED <<codecVars, exampleVars>>

(***************************************************************************)
(* The codec and the example contract as steps.                            *)
(***************************************************************************)
Pack ==
    /\ cPc = "new"
    /\ cAny' = PackAny(cValue, cTypeUrl)
    /\ cPc' = "packed"
    /\ UNCHANGED <<cValue, cTypeUrl, cOut>>
    /\ UNCHANGED <<exampleVars, serverVars, mainVars>>

Unpack ==
    /\ cPc = "packed"
    /\ cAny.ok
    /\ cOut' = UnpackAny(cAny)
    /\ cPc' = "unpacked"
    /\ UNCHANGED <<cValue, cTypeUrl, cAny>>
    /\ UNCHANGED <<exampleVars, serverVars, mainVars>>

NoResponse == [result |-> <<>>]

ExampleExecute ==
    /\ exPc = "ready"
    /\ exResp' = MyCustomPluginExecute(exReq)
    /\ exPc' = "done"
    /\ UNCHANGED exReq
    /\ UNCHANGED <<codecVars, serverVars, mainVars>>

\* the operation names a request may carry, as packed option values
ExampleOperations ==
    {Str(S_uppercase), Str(S_lowercase), Str(S_reverse), Str(S_length), Str(<<>>),
     Str(<<120>>), Num(FALSE, 1, 0)}

\* a Struct-tagged value whose text is no JSON
MalformedAny == AnyOf(DefaultTypeUrl(S_Struct), <<123>>)

ExampleOptions ==
    {<<>>}
        \cup {<<[k |-> key, v |-> PackAny(op, Undefined)]>> :
                  key \in {S_op, S_operation}, op \in ExampleOperations}
        \cup {<<[k |-> S_operation, v |-> MalformedAny]>>}

ExampleArgs == {<<>>, <<[k |-> <<110>>, v |-> PackAny(Num(FALSE, 25, 1), Undefined)]>>}

ExampleInputs == {S_hello, <<65, 98>>, <<>>}

ExampleRequests ==
    {[input |-> i, args |-> a, options |-> o] :
         i \in ExampleInputs, a \in ExampleArgs, o \in ExampleOptions}

\* the values of PLUGIN_PORT: unset, or text over 5, 0, a, -, space, x
EnvChars == {53, 48, 97, 45, 32, 120}
EnvValues == {Undefined} \cup {Str(s) : s \in SeqsUpTo(EnvChars, MaxEnvLen) \cup {S_5005}}

(***************************************************************************)
(* Specifications.                                                         *)
(***************************************************************************)
CodecOff ==
    cPc = "off" /\ cValue = Undefined /\ cTypeUrl = Undefined /\ cAny = NoAny
        /\ cOut = NoResult
ExampleOff == exPc = "off" /\ exReq = NoRequest /\ exResp = NoResponse
MainOff ==
    mainPc = "off" /\ envPort = Undefined /\ requestedPort = NaN /\ stdout = <<>>
        /\ handlers = {} /\ exitCode = NotExited

\* new PluginServer(executer): nothing bound, no call received
ServerCreated ==
    /\ srvShutdown = FALSE
    /\ srvPorts = {}
    /\ starts = [s \in StartIds |-> IdleStart]
    /\ calls = [c \in CallIds |-> IdleCall]
    /\ stopCalls = 0

Init == ServerCreated /\ CodecOff /\ ExampleOff /\ MainOff

\* a PluginServer started once, the callers of Execute and the transport
Next ==
    \/ \E port \in StartPorts : Start(1, port)
    \/ \E p \in AssignablePorts(BindAddress(starts[1].port)) : BindSucceed(1, p)
    \/ BindFail(1)
    \/ Stop
    \/ \E c \in CallIds : ExecuteAwait(c)
    \/ \E c \in CallIds, e \in ThrownValues : ExecuteThrow(c, e)
    \/ \E c \in CallIds, r \in Responses : ContractResolve(c, r)
    \/ \E c \in CallIds, e \in ThrownValues : ContractReject(c, e)

Spec == Init /\ [][Next]_vars

\* a PluginServer whose owner calls start() and stop() in any order
NextServer ==
    \/ \E s \in StartIds, port \in StartPorts : Start(s, port)
    \/ \E s \in StartIds : \E p \in AssignablePorts(BindAddress(starts[s].port)) :
           BindSucceed(s, p)
    \/ \E s \in StartIds : BindFail(s)
    \/ Stop

SpecServer == Init /\ [][NextServer]_vars

\* a process that constructs a PluginMain and calls start()
InitMain ==
    /\ ServerCreated /\ CodecOff /\ ExampleOff
    /\ mainPc = "new" /\ envPort \in EnvValues /\ requestedPort = NaN /\ stdout = <<>>
    /\ handlers = {} /\ exitCode = NotExited

NextMain ==
    \/ MainStart
    \/ \E p \in AssignablePorts(BindAddress(starts[1].port)) : MainBindSucceed(p)
    \/ MainBindFail
    \/ \E sig \in Signals : SignalHandled(sig)
    \/ \E sig \in Signals : SignalDefault(sig)

SpecMain == InitMain /\ [][NextMain]_vars

InitCodec ==
    /\ ServerCreated /\ ExampleOff /\ MainOff
    /\ cPc = "new" /\ cValue \in CodecValues \cup {Undefined}
    /\ cTypeUrl \in CodecTypeUrls /\ cAny = NoAny /\ cOut = NoResult

NextCodec == Pack \/ Unpack

SpecCodec == InitCodec /\ [][NextCodec]_vars

InitExample ==
    /\ ServerCreated /\ CodecOff /\ MainOff
    /\ exPc = "ready" /\ exReq \in ExampleRequests /\ exResp = NoResponse

NextExample == ExampleExecute

SpecExample == InitExample /\ [][NextExample]_vars

(***************************************************************************)
(* Properties of the dispatcher and the lifecycle (specification Spec).    *)
(***************************************************************************)
Failed(call) == call.outcome \in {"threw", "rejected"}

\* C1: when a contract's execute() throws or its promise rejects, the step in
\* which handleExecute sees the failure invokes the callback once with an
\* INTERNAL error and resolves handleExecute's own promise; no promise of
\* handleExecute is ever rejected, and the failure changes neither the server's
\* state nor any other call, so later calls are served as before.
C1_FailureContained ==
    [][\A c \in CallIds :
           /\ calls'[c].promise # "rejected"
           /\ (~Failed(calls[c]) /\ Failed(calls'[c])) =>
                  /\ calls'[c].pc = "done"
                  /\ calls'[c].promise = "resolved"
                  /\ calls'[c].cbCount = 1
                  /\ calls'[c].cb.resp = Undefined
                  /\ calls'[c].cb.err.code = INTERNAL
                  /\ UNCHANGED <<srvShutdown, srvPorts, starts>>
                  /\ \A d \in CallIds \ {c} : calls'[d] = calls[d]]_vars

\* a call that threw and a call that rejected are both answered, and the server
\* still listens
C1_Witness ==
    /\ calls[1].outcome = "threw" /\ calls[1].cb.err # Undefined
    /\ calls[2].outcome = "rejected" /\ calls[2].delivered = "error"
    /\ Listening

\* C2: whatever the interleaving, a call's callback is invoked at most once,
\* exactly once when its handler is done and not before, and a call whose
\* contract resolved is called back with no error and the very response the
\* contract resolved that call with.
C2_CallbackOncePerCall ==
    \A c \in CallIds :
        /\ calls[c].cbCount = (IF calls[c].pc = "done" THEN 1 ELSE 0)
        /\ calls[c].outcome = "returned" =>
               /\ calls[c].pc = "done"
               /\ calls[c].cb = [err |-> JNull, resp |-> calls[c].response]

\* the second call is answered with its own response while the first is pending
C2_Witness ==
    /\ calls[1].pc = "awaiting"
    /\ calls[2].outcome = "returned" /\ calls[2].delivered = "response"
    /\ calls[2].cb.resp = [result |-> <<121>>]

Rank == IF srvShutdown THEN 2 ELSE IF srvPorts # {} THEN 1 ELSE 0

HasDescription(e) ==
    \/ (e.t = "error" /\ e.message # <<>>)
    \/ (e.t = "string" /\ e.s # <<>>)
Description(e) == IF e.t = "error" THEN e.message ELSE e.s

\* C8 as claimed: the error's message is the description of the thrown value
\* whenever it carries one, and the placeholder only when it carries none.
C8_MessageIsDescription ==
    \A c \in CallIds :
        Failed(calls[c]) =>
            /\ HasDescription(calls[c].thrown)
                   => calls[c].cb.err.message = Description(calls[c].thrown)
            /\ calls[c].cb.err.message = S_UnknownError
                   => ~HasDescription(calls[c].thrown)

\* C8, amended: the error's message is the message of a thrown Error, empty when
\* that is empty, and the placeholder "Unknown error" for every thrown value that
\* is no Error, a string with text included.
C8_MessageOfErrorOnly ==
    \A c \in CallIds :
        Failed(calls[c]) =>
            /\ calls[c].thrown = ErrorObj(S_boom) => calls[c].cb.err.message = S_boom
            /\ calls[c].thrown = ErrorObj(<<>>) => calls[c].cb.err.message = <<>>
            /\ calls[c].thrown \in {Str(S_boom), Undefined}
                   => calls[c].cb.err.message = S_UnknownError

\* a thrown string with text is answered with the placeholder
C8_Witness ==
    \E c \in CallIds :
        /\ calls[c].pc = "done" /\ calls[c].thrown = Str(S_boom)
        /\ calls[c].cb.err.message = S_UnknownError

(***************************************************************************)
(* Properties of PluginMain.start (specification SpecMain).                *)
(***************************************************************************)
\* C5 as claimed: whenever a termination signal has ended the process, stop()
\* was invoked exactly once and the process exited with status 0, the bind
\* pending or not.
C5_SignalAlwaysStopsThenExits ==
    exitCode.signal \in Signals =>
        /\ exitCode = Exited(0, exitCode.signal)
        /\ stopCalls = 1
        /\ srvShutdown

\* C5, amended: a signal that arrives after the bind succeeded, when the two
\* listeners are registered, invokes stop() exactly once and then exits with
\* status 0; the process never exits with status 0 otherwise; a signal that
\* arrives while the bind is pending terminates the process by the signal's
\* default disposition, stop() not invoked.
C5_SignalAfterBindStopsThenExits ==
    /\ (exitCode.signal \in Signals /\ starts[1].pc = "resolved") =>
           /\ exitCode = Exited(0, exitCode.signal)
           /\ stopCalls = 1
           /\ srvShutdown /\ srvPorts = {}
    /\ (exitCode.kind = "exit" /\ exitCode.code = 0) =>
           /\ exitCode.signal \in Signals
           /\ starts[1].pc = "resolved"
           /\ stopCalls = 1
    /\ (exitCode.signal \in Signals /\ starts[1].pc # "resolved") =>
           /\ exitCode = Killed(exitCode.signal)
           /\ starts[1].pc = "binding"
           /\ stopCalls = 0

\* SIGINT arrived on the running server
C5_Witness ==
    /\ exitCode = Exited(0, "SIGINT")
    /\ starts[1].pc = "resolved"
    /\ stopCalls = 1
    /\ stdout[Len(stdout)] = SignalLine("SIGINT")

IsHandshake(line) == StartsAt(line, 1, S_PluginPortEq)
HandshakeLines == SelectSeq(stdout, IsHandshake)

\* C6: at most one handshake line is ever written; one is written exactly when
\* the bind has succeeded, and it is PLUGIN_PORT= followed by the decimal digits
\* of the port the transport assigned, the port the running server is bound to;
\* when the bind has failed there is no handshake line, no second start() and
\* the process has exited with status 1, which happens in no other case.
C6_HandshakeOnceAfterBind ==
    /\ Len(HandshakeLines) = (IF starts[1].pc = "resolved" THEN 1 ELSE 0)
    /\ starts[1].pc = "resolved" =>
           /\ HandshakeLines[1] = S_PluginPortEq \o DigitsOf(starts[1].assigned)
           /\ mainPc = "running" => srvPorts = {starts[1].assigned}
    /\ starts[1].pc = "rejected" =>
           /\ exitCode = Exited(1, "none")
           /\ \A s \in StartIds \ {1} : starts[s] = IdleStart
    /\ (exitCode.kind = "exit" /\ exitCode.code = 1) => starts[1].pc = "rejected"

\* PLUGIN_PORT unset, the OS assigned 49153: the line reads PLUGIN_PORT=49153
C6_Witness ==
    /\ mainPc = "running"
    /\ envPort = Undefined
    /\ requestedPort = Num(FALSE, 0, 0)
    /\ stdout = <<StartedLine(49153), S_PluginPortEq \o <<52, 57, 49, 53, 51>>>>

IsInteger(n) == ~n.nan /\ n.e = 0

\* C7: once start() has called this.server.start(port), port is the integer
\* PLUGIN_PORT parses as when it is set and parses as one, and 0 in every other
\* case: unset, empty, or text that parses as no integer.
C7_RequestedPortOrZero ==
    mainPc \notin {"off", "new"} =>
        /\ starts[1].port = requestedPort
        /\ requestedPort =
               (IF envPort.t = "string" /\ IsInteger(ParseInt(envPort.s))
                THEN ParseInt(envPort.s) ELSE Num(FALSE, 0, 0))

(***************************************************************************)
(* Properties of the example contract (specification SpecExample).         *)
(***************************************************************************)
\* {input: "hello", args: {}, options: {<key>: packAny("reverse")}}
ReverseRequest(key) ==
    [input |-> S_hello, args |-> <<>>,
     options |-> <<[k |-> key, v |-> PackAny(Str(S_reverse), Undefined)]>>]

\* C9 as claimed: the request whose option op is packAny("reverse") is answered
\* with a result that contains "olleh".
C9_OpReverseYieldsOlleh ==
    (exPc = "done" /\ exReq = ReverseRequest(S_op)) => Includes(exResp.result, S_olleh)

\* C9, amended: the request whose option operation is packAny("reverse") is
\* answered with a result that contains "olleh"; under the key op the option is
\* not read, the default operation applies and the result contains "HELLO" and
\* not "olleh".
C9_OperationReverseYieldsOlleh ==
    /\ (exPc = "done" /\ exReq = ReverseRequest(S_operation)) =>
           Includes(exResp.result, S_olleh)
    /\ (exPc = "done" /\ exReq = ReverseRequest(S_op)) =>
           /\ Includes(exResp.result, S_HELLO)
           /\ ~Includes(exResp.result, S_olleh)

\* the request with the key operation was executed: the result ends in "olleh"
C9_Witness ==
    /\ exPc = "done"
    /\ exReq = ReverseRequest(S_operation)
    /\ StartsAt(exResp.result, Len(exResp.result) - 6, <<34>> \o S_olleh \o <<34>>)

(***************************************************************************)
(* Properties of the codec (specification SpecCodec).                      *)
(***************************************************************************)
Paired(s, i) ==
    \/ (IsHighSurrogate(s[i]) /\ i < Len(s) /\ IsLowSurrogate(s[i + 1]))
    \/ (IsLowSurrogate(s[i]) /\ i > 1 /\ IsHighSurrogate(s[i - 1]))

Unpaired(s, i) == (IsHighSurrogate(s[i]) \/ IsLowSurrogate(s[i])) /\ ~Paired(s, i)

\* no code unit of s is a surrogate without its partner
WellFormed(s) == \A i \in 1..Len(s) : ~Unpaired(s, i)

\* s with U+FFFD in the place of every unpaired surrogate
ReplaceUnpaired(s) == [i \in 1..Len(s) |-> IF Unpaired(s, i) THEN 65533 ELSE s[i]]

RECURSIVE DeepEqual(_, _)
\* numbers compare as === does (0 equals -0), arrays and objects member by member
DeepEqual(a, b) ==
    IF a.t # b.t THEN FALSE
    ELSE IF a.t = "number" THEN NumEq(a, b)
    ELSE IF a.t = "array"
        THEN /\ Len(a.items) = Len(b.items)
             /\ \A i \in 1..Len(a.items) : DeepEqual(a.items[i], b.items[i])
    ELSE IF a.t = "object"
        THEN /\ Len(a.props) = Len(b.props)
             /\ \A i \in 1..Len(a.props) :
                    /\ a.props[i].k = b.props[i].k
                    /\ DeepEqual(a.props[i].v, b.props[i].v)
    ELSE a = b

RoundTrip == cPc = "unpacked" /\ cTypeUrl = Undefined

\* C10 as claimed: a value packed without a typeUrl unpacks to itself: a string
\* to the identical string, a number to an equal number, a boolean to the same
\* boolean, a structured value to a deep-equal one.
C10_RoundTripEveryValue ==
    RoundTrip =>
        /\ cOut.ok
        /\ IF cValue.t = "string" THEN cOut.v = cValue ELSE DeepEqual(cValue, cOut.v)

\* C10, amended: a value packed without a typeUrl unpacks to itself when it is a
\* string with no unpaired surrogate (the empty string and the strings that look
\* like numbers, booleans or JSON included), a finite number (equal), a boolean
\* (identical) or a structured value (deep-equal); a string with an unpaired
\* surrogate unpacks to the string with U+FFFD in the place of each.
C10_RoundTripWellFormed ==
    RoundTrip =>
        /\ cOut.ok
        /\ IF cValue.t = "string"
           THEN /\ WellFormed(cValue.s) => cOut.v = cValue
                /\ cOut.v = Str(ReplaceUnpaired(cValue.s))
           ELSE DeepEqual(cValue, cOut.v)

\* a string that is one surrogate pair came back identical
C10_Witness ==
    /\ RoundTrip
    /\ cValue = Str(<<55357, 56832>>)
    /\ cAny.value = <<240, 159, 152, 128>>
    /\ cOut = Returns(cValue)

\* the text packAny writes for a value of each dynamic type
TextByType(v) ==
    IF v.t = "string" THEN v.s
    ELSE IF v.t = "number" THEN NumberToString(v)
    ELSE IF v.t = "boolean" THEN (IF v.b THEN S_true ELSE S_false)
    ELSE JSONStringify(v)

\* the tag packAny infers for a value of each dynamic type
InferredTag(v) ==
    IF v.t = "string" THEN S_StringValue
    ELSE IF v.t = "number" THEN S_DoubleValue
    ELSE IF v.t = "boolean" THEN S_BoolValue
    ELSE S_Struct

ScalarTagged(typeUrl) ==
    \/ Includes(typeUrl, S_StringValue)
    \/ Includes(typeUrl, S_DoubleValue)
    \/ Includes(typeUrl, S_BoolValue)

HasPacked == cPc \in {"packed", "unpacked"} /\ cAny.ok

\* C11 as claimed: the bytes packAny writes depend on the dynamic type of the
\* value alone, the tag is the supplied typeUrl whenever one is supplied and the
\* inferred tag otherwise, and a packed plain object is never tagged StringValue,
\* DoubleValue or BoolValue.
C11_TagSuppliedOrInferred ==
    HasPacked =>
        /\ cAny.value = Utf8Encode(TextByType(cValue))
        /\ cAny.typeUrl = (IF cTypeUrl = Undefined
                           THEN DefaultTypeUrl(InferredTag(cValue)) ELSE cTypeUrl.s)
        /\ cValue.t = "object" => ~ScalarTagged(cAny.typeUrl)

\* C11, amended: the bytes packAny writes depend on the dynamic type of the
\* value alone; the tag is the supplied typeUrl when it is a non-empty string and
\* the inferred tag when typeUrl is absent or the empty string; a plain object
\* packed with no typeUrl or an empty one is tagged Struct, never StringValue,
\* DoubleValue or BoolValue, while a supplied non-empty typeUrl tags it whatever
\* it says; packing undefined throws and produces nothing.
C11_TagNonEmptySuppliedOrInferred ==
    cPc \in {"packed", "unpacked"} =>
        /\ cAny.ok <=> cValue # Undefined
        /\ cAny.ok =>
               /\ cAny.value = Utf8Encode(TextByType(cValue))
               /\ cAny.typeUrl = (IF cTypeUrl \in {Undefined, Str(<<>>)}
                                  THEN DefaultTypeUrl(InferredTag(cValue))
                                  ELSE cTypeUrl.s)
        /\ (cValue.t = "object" /\ cTypeUrl \in {Undefined, Str(<<>>)}) =>
               /\ Includes(cAny.typeUrl, S_Struct)
               /\ ~ScalarTagged(cAny.typeUrl)
        /\ (cValue.t = "object" /\ cTypeUrl = Str(DefaultTypeUrl(S_DoubleValue))) =>
               Includes(cAny.typeUrl, S_DoubleValue)

\* an object packed with the empty typeUrl is written as JSON and tagged Struct
C11_Witness ==
    /\ cPc = "packed"
    /\ cValue = Obj(<<[k |-> <<97>>, v |-> Num(FALSE, 1, 0)]>>)
    /\ cTypeUrl = Str(<<>>)
    /\ cAny = AnyOf(DefaultTypeUrl(S_Struct), <<123, 34, 97, 34, 58, 49, 125>>)

====
